---- MODULE Spec2Model ----
(***************************************************************************)
(* Model of packages/@expo/metro-config/src/serializer/                    *)
(* withExpoSerializers.ts: the serializer chain                            *)
(* (createSerializerFromSerialProcessors) and the tree-shaking plugin      *)
(* (treeShakeSerializerPlugin: collectImportExports, treeShakeExports,     *)
(* removeUnusedImports, treeShakeAll).                                     *)
(*                                                                         *)
(* A module's syntax tree is kept as the parts the plugin's visitors read: *)
(* its import declarations, its require("...") calls, its export           *)
(* declarations, the identifiers its body references and the CommonJS      *)
(* export pattern of its body.                                             *)
(***************************************************************************)
EXTENDS Integers, Sequences, FiniteSets, TLC

\* ------------------------------------------------------------------ bounds
NumModules == 3
MaxProcessors == 3

Modules == 1..NumModules

\* ------------------------------------------------------------------ names
\* Identifiers are <<base, module>>: module t declares a_t, b_t; importers
\* bind c_t (a renamed import), d_t (a default import), n_t (a namespace).
Id(base, t) == <<base, t>>
DefaultName == <<"default">>
NoName == <<"null">>

\* Import specifier strings: "./m<t>" and "./m<t>.js" both resolve to module t.
Src(t, ext) == <<"./m", t, ext>>

\* ------------------------------------------------------------------ syntax trees
Named(imported, local) ==
    [type |-> "ImportSpecifier", imported |-> imported, local |-> local]
DefaultSpec(local) ==
    [type |-> "ImportDefaultSpecifier", imported |-> NoName, local |-> local]
NamespaceSpec(local) ==
    [type |-> "ImportNamespaceSpecifier", imported |-> NoName, local |-> local]
ImportDecl(source, specifiers) == [source |-> source, specifiers |-> specifiers]

\* export default <expr>; export const x = .., y = ..; export function f(){}
\* export const x = require("...")
\* An export declaration has the names it declares, the identifiers its
\* expressions reference and the require("...") calls in its expressions.
ExportDefault(uses) ==
    [kind |-> "ExportDefaultDeclaration", names |-> <<DefaultName>>, uses |-> uses,
     requires |-> <<>>]
ExportVar(names, uses) ==
    [kind |-> "VariableDeclaration", names |-> names, uses |-> uses,
     requires |-> <<>>]
ExportFunc(name, uses) ==
    [kind |-> "FunctionDeclaration", names |-> <<name>>, uses |-> uses,
     requires |-> <<>>]
ExportRequire(name, source) ==
    [kind |-> "VariableDeclaration", names |-> <<name>>, uses |-> {},
     requires |-> <<source>>]

Ast(imports, requires, exports, refs, cjs) ==
    [imports |-> imports, requires |-> requires, exports |-> exports,
     refs |-> refs, cjs |-> cjs]

NoModules == [present |-> FALSE, imports |-> <<>>]
OutputItem(type, ast) ==
    [type |-> type, ast |-> ast, modules |-> NoModules, code |-> "transformed"]

Range(s) == {s[i] : i \in DOMAIN s}

\* ------------------------------------------------------------------ collectImportExports
\* getGraphId: the absolutePath of the dependency whose data.name is moduleId.
getGraphId(deps, moduleId) ==
    IF moduleId \in DOMAIN deps THEN [found |-> TRUE, key |-> deps[moduleId]]
    ELSE [found |-> FALSE, key |-> 0]

\* The specifier records of one ImportDeclaration (type, importedName, localName).
SpecifierFacts(specifiers) ==
    [i \in DOMAIN specifiers |->
        [type |-> specifiers[i].type,
         importedName |-> IF specifiers[i].type = "ImportSpecifier"
                          THEN specifiers[i].imported ELSE NoName,
         localName |-> specifiers[i].local]]

\* The require("...") calls of a tree: those of its statements, then those
\* inside its export declarations.
RECURSIVE ExportRequires(_)
ExportRequires(exports) ==
    IF exports = <<>> THEN <<>>
    ELSE Head(exports).requires \o ExportRequires(Tail(exports))
Requires(ast) == ast.requires \o ExportRequires(ast.exports)

\* The sources the traversal meets: import declarations, then require calls.
TraversedSources(ast) ==
    [i \in 1..Len(ast.imports) |-> ast.imports[i].source] \o Requires(ast)

\* Index of the first traversed source with no dependency entry, 0 if none.
FirstUnresolved(deps, ast) ==
    LET srcs == TraversedSources(ast)
        bad == {i \in DOMAIN srcs : ~getGraphId(deps, srcs[i]).found}
    IN IF bad = {} THEN 0 ELSE CHOOSE i \in bad : \A j \in bad : i <= j

\* data.modules.imports of one output unit, as far as the traversal gets.
ImportFacts(deps, ast) ==
    LET decls == [i \in 1..Len(ast.imports) |->
                    [source |-> ast.imports[i].source,
                     key |-> getGraphId(deps, ast.imports[i].source).key,
                     specifiers |-> SpecifierFacts(ast.imports[i].specifiers),
                     cjs |-> FALSE]]
        reqs == [i \in 1..Len(Requires(ast)) |->
                    [source |-> Requires(ast)[i],
                     key |-> getGraphId(deps, Requires(ast)[i]).key,
                     specifiers |-> <<>>,
                     cjs |-> TRUE]]
        all == decls \o reqs
        bad == FirstUnresolved(deps, ast)
    IN IF bad = 0 THEN all ELSE SubSeq(all, 1, bad - 1)

\* value.path of module m, as an error message quotes it.
ModulePath(m) == <<"/m", m, ".js">>
NoPath == <<"", 0, "">>

NoError == [type |-> "none", specifier |-> NoName, module |-> NoPath]
GraphKeyError(moduleId, path) ==
    [type |-> "Error", specifier |-> moduleId, module |-> path]
TypeError == [type |-> "TypeError", specifier |-> NoName, module |-> NoPath]
RemovedPathError ==
    [type |-> "RemovedPathError", specifier |-> NoName, module |-> NoPath]

\* collectImportExports(value) on the output units from index i on; stops at
\* the first unit whose traversal throws.
RECURSIVE collectOutputs(_, _, _, _)
collectOutputs(path, deps, out, i) ==
    IF i > Len(out) THEN [output |-> out, err |-> NoError]
    ELSE LET ast == out[i].ast
             bad == FirstUnresolved(deps, ast)
             item == [out[i] EXCEPT !.modules =
                         [present |-> TRUE, imports |-> ImportFacts(deps, ast)]]
             out2 == [out EXCEPT ![i] = item]
         IN IF bad # 0
            THEN [output |-> out2,
                  err |-> GraphKeyError(TraversedSources(ast)[bad], ModulePath(path))]
            ELSE collectOutputs(path, deps, out2, i + 1)

collectAndRegenerate(path, deps, out) ==
    LET r == collectOutputs(path, deps, out, 1)
    IN [r EXCEPT !.output = [i \in DOMAIN r.output |->
                                [r.output[i] EXCEPT !.code = "regenerated"]]]

collectImportExports(path, deps, out) == collectOutputs(path, deps, out, 1)

\* ------------------------------------------------------------------ detectCommonJsExportsUsage
\* The body's CommonJS export pattern: "none", "module.exports", "exports.x",
\* "Object.assign(module.exports)", "Object.assign(exports)",
\* "Object.defineProperties(module.exports)", "Object.defineProperties(exports)".
CjsPatterns ==
    {"module.exports", "exports.x", "Object.assign(module.exports)",
     "Object.assign(exports)", "Object.defineProperties(module.exports)",
     "Object.defineProperties(exports)"}

detectCommonJsExportsUsage(ast) == ast.cjs \in CjsPatterns

\* ------------------------------------------------------------------ treeShakeExports
\* isExportUsed: some inverse dependency still in the graph has, in a
\* 'js/module' output unit with recorded imports, an import of depId that is
\* a require or names importName.
isExportUsed(depId, inverseDeps, keys, out, importName) ==
    \E id \in inverseDeps \cap keys :
        \E o \in DOMAIN out[id] :
            /\ out[id][o].type = "js/module"
            /\ out[id][o].modules.present
            /\ \E k \in DOMAIN out[id][o].modules.imports :
                LET importItem == out[id][o].modules.imports[k]
                IN /\ importItem.key = depId
                   /\ \/ importItem.cjs
                      \/ \E s \in DOMAIN importItem.specifiers :
                            importItem.specifiers[s].importedName = importName

\* The declared names of one export declaration that no importer uses.
UnusedNames(stmt, depId, inverseDeps, keys, out) ==
    {i \in DOMAIN stmt.names :
        ~isExportUsed(depId, inverseDeps, keys, out, stmt.names[i])}

\* markUnused(path, node) with annotate = false: path.remove() takes the whole
\* export declaration out of the tree, whichever declarator was unused.
markUnused(exports, i) ==
    SubSeq(exports, 1, i - 1) \o SubSeq(exports, i + 1, Len(exports))

\* The export visitors over the export declarations from index i on. A
\* variable declaration with two unused declarators calls path.remove() on
\* a path that is already removed, which Babel refuses with an exception.
RECURSIVE pruneExports(_, _, _, _, _, _)
pruneExports(exports, i, depId, inverseDeps, keys, out) ==
    IF i > Len(exports) THEN [exports |-> exports, err |-> NoError]
    ELSE LET unused == UnusedNames(exports[i], depId, inverseDeps, keys, out)
         IN IF unused = {}
            THEN pruneExports(exports, i + 1, depId, inverseDeps, keys, out)
            ELSE IF Cardinality(unused) > 1
            THEN [exports |-> markUnused(exports, i), err |-> RemovedPathError]
            ELSE pruneExports(markUnused(exports, i), i, depId, inverseDeps, keys, out)

\* treeShakeExports(depId, value) over the output units of value from o on.
RECURSIVE shakeOutputs(_, _, _, _, _)
shakeOutputs(depId, inverseDeps, keys, out, o) ==
    IF o > Len(out[depId]) THEN [output |-> out, err |-> NoError]
    ELSE LET ast == out[depId][o].ast
             r == pruneExports(ast.exports, 1, depId, inverseDeps, keys, out)
             out2 == [out EXCEPT ![depId][o].ast.exports = r.exports]
         IN IF r.err # NoError THEN [output |-> out2, err |-> r.err]
            ELSE shakeOutputs(depId, inverseDeps, keys, out2, o + 1)

treeShakeExports(depId, inverseDeps, keys, out) ==
    shakeOutputs(depId, inverseDeps, keys, out, 1)

\* ------------------------------------------------------------------ removeUnusedImports
\* importedIdentifiers: imported.name of a named specifier, local.name of a
\* default or namespace specifier.
importedIdentifiers(ast) ==
    UNION {{IF d.specifiers[s].type = "ImportSpecifier"
            THEN d.specifiers[s].imported ELSE d.specifiers[s].local :
            s \in DOMAIN d.specifiers} : d \in Range(ast.imports)}

\* usedIdentifiers: every Identifier outside an ImportSpecifier that is not
\* the binding identifier of its own name.
usedIdentifiers(ast) ==
    ast.refs \cup UNION {e.uses : e \in Range(ast.exports)}

unusedImports(ast) == importedIdentifiers(ast) \ usedIdentifiers(ast)

DeleteNever(keys, inv, absolutePath) == keys

\* `if (graphDep.inverseDependencies.size === 0) graph.dependencies.delete(..)`
DeleteIfUnused(keys, inv, absolutePath) ==
    IF inv[absolutePath] = {} THEN keys \ {absolutePath} ELSE keys

AddInverseLinkReversed(inv, absolutePath, path) ==
    [inv EXCEPT ![path] = @ \cup {absolutePath}]

\* `graphDep.inverseDependencies.delete(value.path)`
RemoveInverseLink(inv, absolutePath, path) ==
    [inv EXCEPT ![absolutePath] = @ \ {path}]

RemovedIfUnused(unused, detached) == unused # {}
RemovedAlways(unused, detached) == TRUE

\* Whether removeUnusedImports reports a removal.
RemovedFlag(unused, detached) == unused # {} \/ detached

\* The ImportDeclaration visitor over the declarations from index i on.
\* st carries what it has done so far: kept declarations, value.dependencies,
\* every module's inverseDependencies, the graph's keys, whether a
\* declaration was removed, and the exception that stopped it.
RECURSIVE pruneImports(_, _, _, _, _)
pruneImports(path, decls, i, unused, st) ==
    IF i > Len(decls) THEN st
    ELSE
    LET decl == decls[i]
        rest == SubSeq(decls, i + 1, Len(decls))
        opaque == \E s \in DOMAIN decl.specifiers :
                     decl.specifiers[s].type # "ImportSpecifier"
        kept == SelectSeq(decl.specifiers, LAMBDA sp : sp.imported \notin unused)
        emptied == [decl EXCEPT !.specifiers = <<>>]
        importModuleId == decl.source
    IN
    IF opaque
    THEN \* specifier.imported is undefined: reading .name throws
         [st EXCEPT !.imports = st.imports \o <<decl>> \o rest, !.err = TypeError]
    ELSE IF kept # <<>>
    THEN pruneImports(path, decls, i + 1, unused,
            [st EXCEPT !.imports = st.imports \o <<[decl EXCEPT !.specifiers = kept]>>])
    ELSE IF importModuleId \notin DOMAIN st.deps
    THEN [st EXCEPT !.imports = st.imports \o <<emptied>> \o rest,
                    !.err = GraphKeyError(importModuleId, importModuleId)]
    ELSE
    LET absolutePath == st.deps[importModuleId]
    IN
    IF absolutePath \notin st.keys
    THEN \* graph.dependencies.get(...) is undefined
         [st EXCEPT !.imports = st.imports \o <<emptied>> \o rest, !.err = TypeError]
    ELSE
    LET inv2 == RemoveInverseLink(st.inv, absolutePath, path)
        keys2 == DeleteIfUnused(st.keys, inv2, absolutePath)
        deps2 == [k \in DOMAIN st.deps \ {importModuleId} |-> st.deps[k]]
    IN pruneImports(path, decls, i + 1, unused,
          [st EXCEPT !.inv = inv2, !.keys = keys2, !.deps = deps2, !.detached = TRUE])

removeUnusedImports(path, ast, deps, inv, keys) ==
    LET unused == unusedImports(ast)
        r == pruneImports(path, ast.imports, 1, unused,
                [imports |-> <<>>, deps |-> deps, inv |-> inv, keys |-> keys,
                 detached |-> FALSE, err |-> NoError])
    IN [ast |-> [ast EXCEPT !.imports = r.imports],
        deps |-> r.deps, inv |-> r.inv, keys |-> r.keys, err |-> r.err,
        detached |-> r.detached,
        removed |-> RemovedFlag(unused, r.detached)]

\* ------------------------------------------------------------------ input graphs
\* Module m imports from the next module (T1) and the one after it (T2), so
\* chains, fan-out, fan-in and import cycles (through the entry point,
\* module 1, too) all occur.
T1(m) == (m % NumModules) + 1
T2(m) == ((m + 1) % NumModules) + 1

Body(imports, requires, refs, cjs, type, units) ==
    [imports |-> imports, requires |-> requires, refs |-> refs, cjs |-> cjs,
     type |-> type, units |-> units, lazy |-> NoName]
Plain(imports, requires, refs) ==
    Body(imports, requires, refs, "none", "js/module", 1)

\* Import shapes every module may have.
BaseBodies(m) ==
    LET s1 == Src(T1(m), "")
        s2 == Src(T2(m), "")
        a1 == Id("a", T1(m))
        b2 == Id("b", T2(m))
    IN {Plain(<<>>, <<>>, {}),
        Plain(<<ImportDecl(s1, <<Named(a1, a1)>>)>>, <<>>, {a1}),
        Plain(<<ImportDecl(s1, <<Named(a1, a1)>>)>>, <<>>, {}),
        Plain(<<>>, <<s1>>, {}),
        Plain(<<ImportDecl(s1, <<Named(a1, a1)>>),
                ImportDecl(s2, <<Named(b2, b2)>>)>>, <<>>, {a1})}

\* Import shapes of the one varied module: a partly used declaration, an
\* import of the far module alone, renamed, default and namespace
\* specifiers, a bare import, two declarations or an import and a require of
\* one source, two specifier strings that resolve to one module, and a
\* require inside an export declaration (`export const r = require(..)`,
\* body.lazy).
VariedImports(m) ==
    LET s1 == Src(T1(m), "")
        s1x == Src(T1(m), ".js")
        s2 == Src(T2(m), "")
        a1 == Id("a", T1(m))
        b1 == Id("b", T1(m))
        b2 == Id("b", T2(m))
        c1 == Id("c", T1(m))
        d1 == Id("d", T1(m))
        n1 == Id("n", T1(m))
    IN {Plain(<<ImportDecl(s1, <<Named(a1, a1), Named(b1, b1)>>)>>, <<>>, {a1}),
        Plain(<<ImportDecl(s2, <<Named(b2, b2)>>)>>, <<>>, {b2}),
        Plain(<<ImportDecl(s1, <<Named(a1, c1)>>)>>, <<>>, {c1}),
        Plain(<<ImportDecl(s1, <<Named(a1, c1)>>)>>, <<>>, {}),
        Plain(<<ImportDecl(s1, <<DefaultSpec(d1)>>)>>, <<>>, {d1}),
        Plain(<<ImportDecl(s1, <<NamespaceSpec(n1)>>)>>, <<>>, {n1}),
        Plain(<<ImportDecl(s1, <<Named(DefaultName, d1)>>)>>, <<>>, {d1}),
        Plain(<<ImportDecl(s1, <<>>)>>, <<>>, {}),
        Plain(<<ImportDecl(s1, <<Named(a1, a1)>>),
                ImportDecl(s1, <<Named(b1, b1)>>)>>, <<>>, {b1}),
        Plain(<<ImportDecl(s1, <<Named(a1, a1)>>),
                ImportDecl(s1, <<Named(b1, b1)>>)>>, <<>>, {}),
        Plain(<<ImportDecl(s1, <<Named(a1, a1)>>)>>, <<s1>>, {}),
        Plain(<<ImportDecl(s1, <<Named(a1, a1)>>),
                ImportDecl(s1x, <<Named(b1, b1)>>)>>, <<>>, {b1}),
        Plain(<<ImportDecl(s1, <<Named(a1, a1)>>)>>, <<s1x>>, {}),
        Plain(<<ImportDecl(s2, <<Named(b2, b2)>>)>>, <<s1>>, {}),
        [Plain(<<>>, <<>>, {}) EXCEPT !.lazy = s1]}

\* The varied module may instead have two output units, an output unit that
\* is not 'js/module', or a CommonJS export pattern in its body.
VariedUnits(m) ==
    {[b EXCEPT !.units = 2] : b \in BaseBodies(m)}
    \cup {[b EXCEPT !.type = "js/module/asset"] : b \in BaseBodies(m)}
    \cup {[b EXCEPT !.cjs = p] :
            b \in BaseBodies(m), p \in {"module.exports", "Object.assign(exports)"}}

VariedBodies(m) == BaseBodies(m) \cup VariedImports(m) \cup VariedUnits(m)

\* Export declarations of module m.
NoExports(m) == <<>>
OneDeclaration(m) == <<ExportVar(<<Id("a", m), Id("b", m)>>, {})>>
Separate(m) ==
    <<ExportFunc(Id("a", m), {}),
      ExportVar(<<Id("b", m)>>, {Id("a", T1(m))}),
      ExportDefault({})>>
ExportLayout(layout, m) ==
    CASE layout = "none" -> NoExports(m)
      [] layout = "one" -> OneDeclaration(m)
      [] layout = "separate" -> Separate(m)

\* Every assignment of a body to each of the modules 1..m; module `varied`
\* draws from the wider set.
RECURSIVE BodyAssignments(_, _)
BodyAssignments(m, varied) ==
    IF m = 0 THEN {<<>>}
    ELSE {Append(f, b) : f \in BodyAssignments(m - 1, varied),
                         b \in (IF m = varied THEN VariedBodies(m) ELSE BaseBodies(m))}

TreeOf(body, exports) ==
    Ast(body.imports, body.requires,
        IF body.lazy = NoName THEN exports
        ELSE exports \o <<ExportRequire(Id("r", body.lazy[2]), body.lazy)>>,
        body.refs, body.cjs)
UnitsOf(body, exports) ==
    [i \in 1..body.units |-> OutputItem(body.type, TreeOf(body, exports))]

\* What the resolver built: one dependency entry per specifier string of the
\* tree, and the inverse edges that mirror them.
ResolvedDependencies(body) ==
    LET srcs == {body.imports[i].source : i \in DOMAIN body.imports}
                \cup Range(body.requires)
                \cup (IF body.lazy = NoName THEN {} ELSE {body.lazy})
    IN [s \in srcs |-> s[2]]
Targets(deps) == {deps[s] : s \in DOMAIN deps}

RECURSIVE ReachableFrom(_, _, _)
ReachableFrom(seen, bodies, n) ==
    IF n = 0 THEN seen
    ELSE ReachableFrom(
            seen \cup UNION {Targets(ResolvedDependencies(bodies[m])) : m \in seen},
            bodies, n - 1)

Graph(bodies, entryLayout, layout) ==
    LET deps == [m \in Modules |-> ResolvedDependencies(bodies[m])]
    IN [keys |-> Modules,
        dependencies |-> deps,
        inverseDependencies |->
            [t \in Modules |-> {m \in Modules : t \in Targets(deps[m])}],
        output |-> [m \in Modules |->
            UnitsOf(bodies[m],
                    ExportLayout(IF m = 1 THEN entryLayout ELSE layout, m))]]

\* The graphs handed to the tree-shaking runs: every module is reachable from
\* the entry point.
ShakenGraphs ==
    {Graph(bodies, "separate", layout) :
        bodies \in {f \in UNION {BodyAssignments(NumModules, v) : v \in {1, 2}} :
                        ReachableFrom({1}, f, NumModules) = Modules},
        layout \in {"one", "separate"}}

\* The graph handed to the runs that vary the processor list.
ChainGraph ==
    Graph([m \in Modules |->
             IF m = 1
             THEN Plain(<<ImportDecl(Src(2, ""), <<Named(Id("a", 2), Id("a", 2))>>)>>,
                        <<>>, {Id("a", 2)})
             ELSE IF m < NumModules
             THEN Plain(<<ImportDecl(Src(m + 1, ""),
                                     <<Named(Id("a", m + 1), Id("a", m + 1))>>)>>,
                        <<>>, {})
             ELSE Plain(<<>>, <<>>, {})],
          "none", "separate")

\* ------------------------------------------------------------------ getDefaultSerializer
\* The next entry of the Map iteration over graph.dependencies: the first
\* key after the iterator's position that is still in the map (0 if none).
NextKey(keys, pos) ==
    LET later == {k \in keys : k > pos}
    IN IF later = {} THEN 0 ELSE CHOOSE k \in later : \A j \in later : k <= j

\* options.sourceUrl: absent, or a URL with the query parameters platform,
\* serializer.output and serializer.map ("null" when the URL has none), in
\* the normal or the JSC-safe encoding (query after "//&" in the path).
NoUrl ==
    [present |-> FALSE, jscSafe |-> FALSE, platform |-> "null", output |-> "null",
     map |-> "null"]
Url(jscSafe, platform, out, map) ==
    [present |-> TRUE, jscSafe |-> jscSafe, platform |-> platform, output |-> out,
     map |-> map]

isJscSafeUrl(url) == url.jscSafe
toNormalUrl(url) == [url EXCEPT !.jscSafe = FALSE]

\* new URL(sourceUrl, ..).searchParams.get(name): a JSC-safe URL has no
\* search part, its query is in the path.
searchParam(url, name) == IF url.jscSafe THEN "null" ELSE url[name]

RequestOptions(sourceUrl, sourceMapUrl, dev) ==
    [sourceUrl |-> sourceUrl, sourceMapUrl |-> sourceMapUrl, dev |-> dev]
DefaultOptions == RequestOptions(NoUrl, "null", FALSE)

\* Text values: bundle code and source maps.
Text(text, pre, modules) == [text |-> text, pre |-> pre, modules |-> modules]
EmptyString == Text("", <<>>, <<>>)

\* The value a serializer returns: a string, or a {code, map} pair.
StringValue(code) == [type |-> "string", code |-> code, map |-> EmptyString]
CodeAndMap(code, map) == [type |-> "object", code |-> code, map |-> map]

\* A module of the sequence handed to the source-map stringifier.
PreModule(name) == [pre |-> TRUE, name |-> name, id |-> 0, root |-> "none"]
GraphModule(m) == [pre |-> FALSE, name |-> "m", id |-> m, root |-> "/"]

\* The keys of graph.dependencies in iteration order from position pos on.
RECURSIVE GraphOrder(_, _)
GraphOrder(keys, pos) ==
    LET k == NextKey(keys, pos)
    IN IF k = 0 THEN <<>> ELSE <<k>> \o GraphOrder(keys, k)

\* bundleToString(baseJSBundle(entryPoint, preModules, graph, options)).code
baseJSBundle(tuple, keys, out) ==
    Text("bundle", tuple.preModules,
         [i \in DOMAIN GraphOrder(keys, 0) |->
            LET m == GraphOrder(keys, 0)[i]
            IN [key |-> m, code |-> [o \in DOMAIN out[m] |-> out[m][o].code]]])

SerializerKinds == {"null", "string", "empty", "object"}

\* fallbackSerializer ?? (the whole-bundle stringifier)
defaultSerializer(fallbackSerializer, tuple, keys, out) ==
    CASE fallbackSerializer = "null" -> StringValue(baseJSBundle(tuple, keys, out))
      [] fallbackSerializer = "string" -> StringValue(Text("custom", <<>>, <<>>))
      [] fallbackSerializer = "empty" -> StringValue(EmptyString)
      [] fallbackSerializer = "object" ->
            CodeAndMap(Text("custom", <<>>, <<>>),
                       Text("custom map", <<>>, <<GraphModule(1)>>))

\* `if (jsCode)`: an object, or a string that is not empty.
Truthy(jsCode) == jsCode.type = "object" \/ jsCode.code # EmptyString

IsStaticExportAnyPlatform(url) == searchParam(url, "output") = "static"

\* platform=web and serializer.output=static
IsStaticExport(url) ==
    /\ searchParam(url, "platform") = "web"
    /\ searchParam(url, "output") = "static"

IncludeSourceMapsAlways(url) == TRUE

\* includeSourceMaps: serializer.map=true
includeSourceMaps(url) == searchParam(url, "map") = "true"

\* ------------------------------------------------------------------ getSortedModules
\* options.createModuleId: a path keeps the id of its first call; a new path
\* gets the next free number.
createModuleId(ids, path) ==
    IF path \in DOMAIN ids THEN ids
    ELSE [p \in DOMAIN ids \cup {path} |->
            IF p = path THEN Cardinality(DOMAIN ids) ELSE ids[p]]

LogEntry(op, a, b, modules) == [op |-> op, a |-> a, b |-> b, modules |-> modules]
IdCall(path) == LogEntry("createModuleId", path, 0, <<>>)

\* `for (const module of modules) createModuleId(module.path)`
RECURSIVE AssignIds(_, _, _)
AssignIds(modules, i, st) ==
    IF i > Len(modules) THEN st
    ELSE AssignIds(modules, i + 1,
            [st EXCEPT !.ids = createModuleId(st.ids, modules[i]),
                       !.log = Append(st.log, IdCall(modules[i]))])

CompareReversed(a, b, st) ==
    LET ids1 == createModuleId(st.ids, a)
        ids2 == createModuleId(ids1, b)
    IN [diff |-> ids2[b] - ids2[a],
        st |-> [st EXCEPT !.ids = ids2,
                          !.log = st.log \o <<LogEntry("compare", a, b, <<>>),
                                              IdCall(a), IdCall(b)>>]]

\* The comparator: createModuleId(a.path) - createModuleId(b.path)
Compare(a, b, st) ==
    LET ids1 == createModuleId(st.ids, a)
        ids2 == createModuleId(ids1, b)
    IN [diff |-> ids2[a] - ids2[b],
        st |-> [st EXCEPT !.ids = ids2,
                          !.log = st.log \o <<LogEntry("compare", a, b, <<>>),
                                              IdCall(a), IdCall(b)>>]]

\* modules.sort(comparator): x is moved down from position j of sorted while
\* the comparator puts it before its left neighbour.
RECURSIVE SinkInto(_, _, _, _)
SinkInto(sorted, x, j, st) ==
    IF j = 0 THEN [sorted |-> <<x>> \o sorted, st |-> st]
    ELSE LET c == Compare(x, sorted[j], st)
         IN IF c.diff < 0 THEN SinkInto(sorted, x, j - 1, c.st)
            ELSE [sorted |-> SubSeq(sorted, 1, j) \o <<x>>
                             \o SubSeq(sorted, j + 1, Len(sorted)),
                  st |-> c.st]

RECURSIVE SortModules(_, _, _, _)
SortModules(modules, i, sorted, st) ==
    IF i > Len(modules) THEN [sorted |-> sorted, st |-> st]
    ELSE LET r == SinkInto(sorted, modules[i], Len(sorted), st)
         IN SortModules(modules, i + 1, r.sorted, r.st)

getSortedModules(keys, ids, log) ==
    LET modules == GraphOrder(keys, 0)
        st == AssignIds(modules, 1, [ids |-> ids, log |-> log])
    IN SortModules(modules, 1, <<>>, st)

\* sourceMapString(modules, options): the sources of the map, in order.
sourceMapString(modules) == Text("map", <<>>, modules)

\* serializeToSourceMap(...props)
serializeToSourceMap(tuple, keys, ids, log) ==
    LET r == getSortedModules(keys, ids, log)
        modules == [i \in DOMAIN tuple.preModules |-> PreModule(tuple.preModules[i])]
                   \o [i \in DOMAIN r.sorted |-> GraphModule(r.sorted[i])]
    IN [map |-> sourceMapString(modules),
        ids |-> r.st.ids,
        log |-> Append(r.st.log, LogEntry("sourceMapString", 0, 0, modules))]

\* A source that starts with '/' is made relative to the server root.
RelativeSource(value) ==
    IF value.root = "/" THEN [value EXCEPT !.root = "serverRoot"] ELSE value
RelativeSources(map) ==
    [map EXCEPT !.modules = [i \in DOMAIN map.modules |-> RelativeSource(map.modules[i])]]

\* fileNameFromContents({filepath, src}): a name derived from the contents.
fileNameFromContents(src) == [hash |-> src]

Asset(filename, originFilename, type, source) ==
    [filename |-> filename, originFilename |-> originFilename, type |-> type,
     source |-> source]

\* getCssSerialAssets(graph.dependencies, ..): the style assets of the graph.
getCssSerialAssets(styles) ==
    [i \in 1..styles |->
        Asset([dev |-> FALSE, ext |-> ".css", hash |-> Text("css", <<>>, <<>>)],
              "style.css", "css", Text("css", <<>>, <<>>))]

\* What the serializer returns: the underlying serializer's value, or the
\* JSON text of an asset array.
NoValue == StringValue(EmptyString)
Returned(value) == [json |-> FALSE, value |-> value, assets |-> <<>>]
JsonStringify(assets) == [json |-> TRUE, value |-> NoValue, assets |-> assets]
NoResult == [json |-> FALSE, value |-> NoValue, assets |-> <<>>]

\* The serializer getDefaultSerializer returns, applied to a tuple.
getDefaultSerializer(fallbackSerializer, tuple, keys, out, ids, log, styles) ==
    LET options == tuple.options
        jsCode == defaultSerializer(fallbackSerializer, tuple, keys, out)
        sourceUrl == IF isJscSafeUrl(options.sourceUrl)
                     THEN toNormalUrl(options.sourceUrl) ELSE options.sourceUrl
        jsFilename == fileNameFromContents(jsCode.code)
        jsAsset == Asset([dev |-> options.dev, ext |-> ".js", hash |-> jsFilename.hash],
                         "index.js", "js", jsCode.code)
        withMap == includeSourceMaps(sourceUrl) /\ options.sourceMapUrl # "null"
        sm == IF jsCode.type = "string"
              THEN serializeToSourceMap(tuple, keys, ids, log)
              ELSE [map |-> jsCode.map, ids |-> ids, log |-> log]
        mapAsset == Asset([dev |-> options.dev, ext |-> ".js.map", hash |-> jsFilename.hash],
                          "index.map", "map", RelativeSources(sm.map))
        cssDeps == getCssSerialAssets(styles)
    IN IF ~options.sourceUrl.present
       THEN [result |-> Returned(jsCode), ids |-> ids, log |-> log]
       ELSE IF ~IsStaticExport(sourceUrl)
       THEN [result |-> Returned(jsCode), ids |-> ids, log |-> log]
       ELSE IF ~Truthy(jsCode)
       THEN [result |-> JsonStringify(cssDeps), ids |-> ids, log |-> log]
       ELSE IF withMap
       THEN [result |-> JsonStringify(<<jsAsset, mapAsset>> \o cssDeps),
             ids |-> sm.ids, log |-> sm.log]
       ELSE [result |-> JsonStringify(<<jsAsset>> \o cssDeps),
             ids |-> ids, log |-> log]

\* ------------------------------------------------------------------ state
VARIABLES
    processors,           \* the list given to createSerializerFromSerialProcessors
    index,                \* position of `for (const processor of processors)`
    props,                \* the serializer parameters tuple (the graph is below)
    calls,                \* processor invocations: index, argument, result
    finalCalls,           \* the tuples finalSerializer was invoked with
    graphKeys,            \* keys of graph.dependencies
    dependencies,         \* value.dependencies of every module record
    inverseDependencies,  \* value.inverseDependencies of every module record
    output,               \* value.output of every module record
    stack,                \* the active treeShakeAll calls, innermost last
    pc,
    error,                \* the exception that ended the serialization
    input,                \* the graph as the caller handed it in
    originalSerializer,   \* the user-supplied serializer, "null" if none
    moduleIds,            \* the ids options.createModuleId has assigned
    log,                  \* createModuleId, comparator and sourceMapString calls
    result                \* what the serializer returned

vars == <<processors, index, props, calls, finalCalls, graphKeys, dependencies,
          inverseDependencies, output, stack, pc, error, input,
          originalSerializer, moduleIds, log, result>>

graphVars == <<graphKeys, dependencies, inverseDependencies, output>>
chainVars == <<processors, index, props, calls, finalCalls>>
emitVars == <<originalSerializer, moduleIds, log, result>>

ProcessorKinds ==
    {"undefined", "serverPreludeSerializerPlugin",
     "environmentVariableSerializerPlugin", "treeShakeSerializerPlugin"}

RECURSIVE SeqsUpTo(_, _)
SeqsUpTo(S, n) ==
    IF n = 0 THEN {<<>>}
    ELSE LET shorter == SeqsUpTo(S, n - 1)
         IN shorter \cup {Append(q, x) : q \in {r \in shorter : Len(r) = n - 1}, x \in S}

Tuple(preModules) ==
    [entryPoint |-> 1, preModules |-> preModules, options |-> DefaultOptions]

\* The serializer built from procs and serializer is called with a tuple;
\* ids are the ids createModuleId assigned before, styles the number of
\* style modules of the graph.
StartRequest(g, procs, pre, options, serializer, ids, styles) ==
    /\ processors = procs
    /\ index = 1
    /\ props = [Tuple(pre) EXCEPT !.options = options]
    /\ calls = <<>>
    /\ finalCalls = <<>>
    /\ graphKeys = g.keys
    /\ dependencies = g.dependencies
    /\ inverseDependencies = g.inverseDependencies
    /\ output = g.output
    /\ stack = <<>>
    /\ pc = "processors"
    /\ error = NoError
    /\ input = [graph |-> g, props |-> [Tuple(pre) EXCEPT !.options = options],
                styles |-> styles, ids |-> ids]
    /\ originalSerializer = serializer
    /\ moduleIds = ids
    /\ log = <<>>
    /\ result = NoResult

NoIds == <<>>

Start(g, procs, pre) ==
    StartRequest(g, procs, pre, DefaultOptions, "null", NoIds, 0)

\* The ids an earlier serialization of the graph may have left: none, one
\* for the last module only, or one for every module in reverse order.
AssignedIds ==
    {NoIds,
     [p \in {NumModules} |-> 0],
     [p \in Modules |-> NumModules - p]}

SourceUrls ==
    {NoUrl} \cup
    {Url(safe, platform, out, map) :
        safe \in BOOLEAN, platform \in {"null", "web", "ios"},
        out \in {"null", "static"}, map \in {"null", "true", "false"}}

\* The requests of static exports with maps.
MapRequests ==
    {RequestOptions(Url(safe, "web", "static", "true"), "present", dev) :
        safe \in BOOLEAN, dev \in BOOLEAN}

Init ==
    \/ \E g \in ShakenGraphs :
          Start(g, <<"treeShakeSerializerPlugin", "treeShakeSerializerPlugin">>, <<>>)
    \/ \E procs \in SeqsUpTo(ProcessorKinds, MaxProcessors), pre \in {<<>>, <<"polyfill">>} :
          Start(ChainGraph, procs, pre)
    \/ \E url \in SourceUrls, sourceMapUrl \in {"null", "present"},
          serializer \in SerializerKinds, styles \in {0, 1} :
          StartRequest(ChainGraph, <<>>, <<"polyfill">>,
                       RequestOptions(url, sourceMapUrl, FALSE), serializer, NoIds, styles)
    \/ \E options \in MapRequests, ids \in AssignedIds,
          procs \in {<<>>, <<"treeShakeSerializerPlugin">>,
                     <<"serverPreludeSerializerPlugin">>},
          pre \in {<<>>, <<"polyfill", "shim">>}, serializer \in {"null", "object"} :
          StartRequest(ChainGraph, procs, pre, options, serializer, ids, 1)

\* ------------------------------------------------------------------ the serializer chain
IsDefinedAlways(processor) == TRUE

\* `if (processor)`
IsDefined(processor) == processor # "undefined"

\* The sibling plugins prepend their module to preModules.
serverPreludeSerializerPlugin(tuple) ==
    [tuple EXCEPT !.preModules = <<"__prelude__">> \o @]
environmentVariableSerializerPlugin(tuple) ==
    [tuple EXCEPT !.preModules = <<"__env__">> \o @]

ThrowAndGoOn(e) ==
    /\ pc' = "processors"
    /\ error' = e

\* An exception leaves the serializer: nothing of it runs afterwards.
Throw(e) ==
    /\ pc' = "error"
    /\ error' = e

\* An undefined entry of the list is passed over.
SkipProcessor ==
    /\ pc = "processors"
    /\ index <= Len(processors)
    /\ ~IsDefined(processors[index])
    /\ index' = index + 1
    /\ UNCHANGED <<processors, props, calls, finalCalls, graphVars, stack, pc,
                   error, input, emitVars>>

\* props = processor(...props) for one of the sibling plugins.
RunPlugin ==
    /\ pc = "processors"
    /\ index <= Len(processors)
    /\ IsDefined(processors[index])
    /\ processors[index] # "treeShakeSerializerPlugin"
    /\ LET arg == props
           ret == IF processors[index] = "serverPreludeSerializerPlugin"
                  THEN serverPreludeSerializerPlugin(arg)
                  ELSE IF processors[index] = "environmentVariableSerializerPlugin"
                  THEN environmentVariableSerializerPlugin(arg)
                  ELSE arg
       IN /\ calls' = Append(calls, [processor |-> index, arg |-> arg, ret |-> ret,
                                     returned |-> TRUE])
          /\ props' = ret
    /\ index' = index + 1
    /\ UNCHANGED <<processors, finalCalls, graphVars, stack, pc, error, input,
                   emitVars>>

\* ------------------------------------------------------------------ treeShakeSerializerPlugin
\* One treeShakeAll call: where its loops are, and what it has done so far
\* (the modules it ran collectImportExports and treeShakeExports on, the
\* output units it ran removeUnusedImports on).
Frame(phase, pos, value, out) ==
    [phase |-> phase, pos |-> pos, value |-> value, out |-> out,
     scanned |-> {}, shaken |-> {}, pruned |-> {}]
Top == stack[Len(stack)]
SetTop(f) == [stack EXCEPT ![Len(stack)] = f]

\* The plugin is called; its body calls treeShakeAll().
StartTreeShake ==
    /\ pc = "processors"
    /\ index <= Len(processors)
    /\ IsDefined(processors[index])
    /\ processors[index] = "treeShakeSerializerPlugin"
    /\ calls' = Append(calls, [processor |-> index, arg |-> props, ret |-> props,
                               returned |-> FALSE])
    /\ stack' = <<Frame("collect", 0, 0, 1)>>
    /\ pc' = "treeShakeAll"
    /\ UNCHANGED <<processors, index, props, finalCalls, graphVars, error, input,
                   emitVars>>

\* collectImportExports over the modules of keys from position pos on.
RECURSIVE collectAll(_, _, _, _)
collectAll(keys, deps, out, pos) ==
    LET k == NextKey(keys, pos)
    IN IF k = 0 THEN [output |-> out, err |-> NoError]
       ELSE LET r == collectImportExports(k, deps[k], out[k])
                out2 == [out EXCEPT ![k] = r.output]
            IN IF r.err # NoError THEN [output |-> out2, err |-> r.err]
               ELSE collectAll(keys, deps, out2, k)

\* treeShakeAll, first loop: collectImportExports(value) for every module.
CollectAll ==
    /\ pc = "treeShakeAll"
    /\ Top.phase = "collect"
    /\ LET r == collectAll(graphKeys, dependencies, output, 0)
       IN /\ output' = r.output
          /\ IF r.err # NoError
             THEN Throw(r.err) /\ UNCHANGED stack
             ELSE /\ stack' = SetTop([Frame("modules", 0, 0, 1) EXCEPT
                                        !.scanned = Range(GraphOrder(graphKeys, 0))])
                  /\ UNCHANGED <<pc, error>>
    /\ UNCHANGED <<chainVars, graphKeys, dependencies, inverseDependencies, input,
                   emitVars>>

\* The second loop is between modules when it has no current module or has
\* gone through the current module's output units.
BetweenModules(f) ==
    /\ f.phase = "modules"
    /\ IF f.value = 0 THEN TRUE ELSE f.out > Len(output[f.value])

\* treeShakeAll, second loop: the next entry of graph.dependencies, and
\* treeShakeExports(depId, value) on it.
ShakeExports ==
    /\ pc = "treeShakeAll"
    /\ BetweenModules(Top)
    /\ NextKey(graphKeys, Top.pos) # 0
    /\ LET depId == NextKey(graphKeys, Top.pos)
           r == treeShakeExports(depId, inverseDependencies[depId], graphKeys, output)
       IN /\ output' = r.output
          /\ stack' = SetTop([Top EXCEPT !.pos = depId, !.value = depId, !.out = 1,
                                          !.shaken = @ \cup {depId}])
          /\ IF r.err # NoError THEN Throw(r.err) ELSE UNCHANGED <<pc, error>>
    /\ UNCHANGED <<chainVars, graphKeys, dependencies, inverseDependencies, input,
                   emitVars>>

\* treeShakeAll, inner loop: removeUnusedImports(value, ast) on the next
\* output unit of the current module, and a nested treeShakeAll() when it
\* reports a removal.
PruneImports ==
    /\ pc = "treeShakeAll"
    /\ Top.phase = "modules"
    /\ Top.value # 0
    /\ Top.out <= Len(output[Top.value])
    /\ LET value == Top.value
           r == removeUnusedImports(value, output[value][Top.out].ast,
                                    dependencies[value], inverseDependencies, graphKeys)
           advanced == SetTop([Top EXCEPT !.out = @ + 1,
                                          !.pruned = @ \cup {<<value, Top.out>>}])
       IN /\ output' = [output EXCEPT ![value][Top.out].ast = r.ast]
          /\ dependencies' = [dependencies EXCEPT ![value] = r.deps]
          /\ inverseDependencies' = r.inv
          /\ graphKeys' = r.keys
          /\ IF r.err # NoError
             THEN Throw(r.err) /\ UNCHANGED stack
             ELSE /\ stack' = IF r.removed
                              THEN Append(advanced, Frame("collect", 0, 0, 1))
                              ELSE advanced
                  /\ UNCHANGED <<pc, error>>
    /\ UNCHANGED <<chainVars, input, emitVars>>

\* The code of every output unit of the modules left in the graph is
\* generated again from its tree.
Regenerated(keys, out) ==
    [m \in DOMAIN out |->
        IF m \in keys
        THEN [o \in DOMAIN out[m] |-> [out[m][o] EXCEPT !.code = "regenerated"]]
        ELSE out[m]]

\* A treeShakeAll call has gone through graph.dependencies and returns: to
\* the treeShakeAll that called it, or to the plugin, which regenerates the
\* code and returns the tuple.
ReturnTreeShakeAll ==
    /\ pc = "treeShakeAll"
    /\ BetweenModules(Top)
    /\ NextKey(graphKeys, Top.pos) = 0
    /\ stack' = SubSeq(stack, 1, Len(stack) - 1)
    /\ IF Len(stack) = 1
       THEN /\ output' = Regenerated(graphKeys, output)
            /\ calls' = [calls EXCEPT ![Len(calls)].returned = TRUE]
            /\ props' = calls[Len(calls)].ret
            /\ index' = index + 1
            /\ pc' = "processors"
       ELSE UNCHANGED <<output, calls, props, index, pc>>
    /\ UNCHANGED <<processors, finalCalls, graphKeys, dependencies,
                   inverseDependencies, error, input, emitVars>>

\* `return finalSerializer(...props)` after the loop.
FinalSerializer ==
    /\ pc = "processors"
    /\ index > Len(processors)
    /\ finalCalls' = Append(finalCalls, props)
    /\ LET r == getDefaultSerializer(originalSerializer, props, graphKeys, output,
                                     moduleIds, log, input.styles)
       IN /\ result' = r.result
          /\ moduleIds' = r.ids
          /\ log' = r.log
    /\ pc' = "done"
    /\ UNCHANGED <<processors, index, props, calls, graphVars, stack, error, input,
                   originalSerializer>>

Next ==
    \/ SkipProcessor
    \/ RunPlugin
    \/ StartTreeShake
    \/ CollectAll
    \/ ShakeExports
    \/ PruneImports
    \/ ReturnTreeShakeAll
    \/ FinalSerializer

Spec == Init /\ [][Next]_vars

\* ------------------------------------------------------------------ properties
TreeShake == "treeShakeSerializerPlugin"

\* A top-level treeShakeAll has completed and none is running.
Completed ==
    /\ pc \in {"processors", "done"}
    /\ \E k \in DOMAIN calls :
          processors[calls[k].processor] = TreeShake /\ calls[k].returned

\* The names a tree exports: default, each declarator of an exported
\* variable declaration, an exported function.
ExportedNames(ast) == UNION {Range(e.names) : e \in Range(ast.exports)}

InputAst(m, o) == input.graph.output[m][o].ast

\* A specifier of an import declaration binds export E of the source.
Binds(spec, E) ==
    \/ spec.type = "ImportSpecifier" /\ spec.importedName = E
    \/ spec.type = "ImportDefaultSpecifier" /\ E = DefaultName
    \/ spec.type = "ImportNamespaceSpecifier"

\* Some module in the graph has a recorded import of M that binds E or is a
\* require.
RecordedImportOf(M, E) ==
    \E A \in graphKeys : \E u \in DOMAIN output[A] :
        \E k \in DOMAIN output[A][u].modules.imports :
            LET item == output[A][u].modules.imports[k]
            IN /\ item.key = M
               /\ \/ item.cjs
                  \/ \E s \in DOMAIN item.specifiers : Binds(item.specifiers[s], E)

\* C1: after treeShakeAll completes, an export E of a module M in the graph
\* is still declared in M's tree if and only if some module in the graph has
\* a recorded import of M that binds E or is a require.
ExportLiveness ==
    Completed =>
        \A M \in graphKeys : \A o \in DOMAIN output[M] :
            \A E \in ExportedNames(InputAst(M, o)) :
                E \in ExportedNames(output[M][o].ast) <=> RecordedImportOf(M, E)

\* C2: a module that had no inverse dependencies when the pass began keeps
\* every export declaration it had.
EntryNeverExportPruned ==
    Completed =>
        \A M \in graphKeys :
            input.graph.inverseDependencies[M] = {} =>
                \A o \in DOMAIN output[M] :
                    output[M][o].ast.exports = InputAst(M, o).exports

\* C3: a module whose body has a CommonJS whole-object export pattern keeps
\* all its export declarations.
CommonJsOpacity ==
    Completed =>
        \A M \in graphKeys : \A o \in DOMAIN output[M] :
            detectCommonJsExportsUsage(InputAst(M, o)) =>
                output[M][o].ast.exports = InputAst(M, o).exports

\* The (source, specifier) pairs of a list of import declarations.
RECURSIVE Flatten(_)
Flatten(decls) ==
    IF decls = <<>> THEN <<>>
    ELSE [i \in DOMAIN Head(decls).specifiers |->
            [source |-> Head(decls).source, specifier |-> Head(decls).specifiers[i]]]
         \o Flatten(Tail(decls))

\* removeUnusedImports is about to run on output unit Top.out of Top.value.
AtPruneImports ==
    /\ pc = "treeShakeAll"
    /\ Top.phase = "modules"
    /\ Top.value # 0
    /\ Top.out <= Len(output[Top.value])

\* treeShakeExports is about to run on the next module of the graph.
AtShakeExports ==
    /\ pc = "treeShakeAll"
    /\ BetweenModules(Top)
    /\ NextKey(graphKeys, Top.pos) # 0

\* C4: removeUnusedImports removes a specifier exactly when the local name
\* it binds is not referenced in the module's body, for named, default and
\* namespace specifiers, and does not fail on any of them.
LocalBindingPruning ==
    [][AtPruneImports =>
        LET ast == output[Top.value][Top.out].ast
            after == output'[Top.value][Top.out].ast
        IN /\ error'.type # "TypeError"
           /\ error' = NoError =>
                Flatten(after.imports) =
                    SelectSeq(Flatten(ast.imports),
                              LAMBDA p : p.specifier.local \in usedIdentifiers(ast))]_vars

\* Pruning detached the edge A -> B: a dependency entry of A for B is gone.
Detached(A, B) ==
    \E s \in DOMAIN input.graph.dependencies[A] :
        /\ input.graph.dependencies[A][s] = B
        /\ s \notin DOMAIN dependencies[A]

\* C5: after treeShakeAll completes, every dependency entry and every import
\* statement left in a module of the graph leads to a module of the graph
\* that lists it as an inverse dependency, and a detached edge is gone in
\* both directions.
NoDanglingEdge ==
    Completed =>
        \A A \in graphKeys :
            /\ \A s \in DOMAIN dependencies[A] :
                  /\ dependencies[A][s] \in graphKeys
                  /\ A \in inverseDependencies[dependencies[A][s]]
            /\ \A o \in DOMAIN output[A] : \A d \in Range(output[A][o].ast.imports) :
                  /\ d.source \in DOMAIN dependencies[A]
                  /\ dependencies[A][d.source] \in graphKeys
                  /\ A \in inverseDependencies[dependencies[A][d.source]]
            /\ \A B \in Modules :
                  Detached(A, B) =>
                      /\ B \notin Targets(dependencies[A])
                      /\ A \notin inverseDependencies[B]

\* The last importer edge of M was detached.
LostLastImporter(M) ==
    /\ input.graph.inverseDependencies[M] # {}
    /\ inverseDependencies[M] = {}

\* C6: a module whose inverse-dependency set was emptied by detaching edges
\* is not in the graph when the top-level treeShakeAll has returned.
OrphanCollected ==
    Completed => \A M \in Modules : LostLastImporter(M) => M \notin graphKeys

OrphanCollectedWitness ==
    /\ Completed
    /\ \E M \in Modules : LostLastImporter(M) /\ M \notin graphKeys

\* C7: the top-level treeShakeAll call returns: no exception ends it.
TreeShakeAllReturns == pc = "error" => stack = <<>>

\* The trees of every module record.
Trees == [m \in Modules |-> [o \in DOMAIN output[m] |-> output[m][o].ast]]

\* treeShakeAll is running on a graph on which it has already completed.
InSecondRun ==
    /\ pc = "treeShakeAll"
    /\ \E k \in DOMAIN calls :
          processors[calls[k].processor] = TreeShake /\ calls[k].returned

\* C8: a treeShakeAll on a graph on which treeShakeAll has completed removes
\* no export, no import specifier or declaration, no edge and no module.
SecondRunIsNoOp ==
    [][InSecondRun =>
        /\ Trees' = Trees
        /\ graphKeys' = graphKeys
        /\ dependencies' = dependencies
        /\ inverseDependencies' = inverseDependencies]_vars

\* Some module in the graph has a recorded require of M.
RecordedRequireOf(M) ==
    \E A \in graphKeys : \E u \in DOMAIN output[A] :
        \E k \in DOMAIN output[A][u].modules.imports :
            /\ output[A][u].modules.imports[k].key = M
            /\ output[A][u].modules.imports[k].cjs

\* C9: treeShakeExports removes no export declaration of a module that some
\* module in the graph has a recorded require edge to.
RequireKeepsTargetLive ==
    [][AtShakeExports =>
        LET M == NextKey(graphKeys, Top.pos)
        IN RecordedRequireOf(M) =>
              \A o \in DOMAIN output[M] :
                  output'[M][o].ast.exports = output[M][o].ast.exports]_vars

\* The indexes of the defined entries of the processor list.
DefinedIndexes == {i \in DOMAIN processors : processors[i] # "undefined"}

\* C10: the defined plugins are invoked in list order, each with the tuple
\* the previous one returned (the first with the caller's tuple), undefined
\* entries are skipped, and the final serializer is invoked once, after all
\* of them, with the last returned tuple.
PluginsRunInListOrder ==
    /\ pc # "done" => finalCalls = <<>>
    /\ \A k \in DOMAIN calls :
          /\ calls[k].processor \in DefinedIndexes
          /\ k > 1 => /\ calls[k - 1].processor < calls[k].processor
                      /\ calls[k - 1].returned
                      /\ calls[k].arg = calls[k - 1].ret
          /\ k = 1 => calls[k].arg = input.props
    /\ pc = "done" =>
          /\ Len(finalCalls) = 1
          /\ {calls[k].processor : k \in DOMAIN calls} = DefinedIndexes
          /\ \A k \in DOMAIN calls : calls[k].returned
          /\ finalCalls[1] = IF calls = <<>> THEN input.props
                             ELSE calls[Len(calls)].ret

PluginsRunInListOrderWitness ==
    /\ pc = "done"
    /\ Len(calls) >= 2
    /\ \E i \in DOMAIN processors : processors[i] = "undefined" /\ i < Len(processors)
    /\ finalCalls[1] # input.props

\* C11: when a plugin throws, the serialization ends with that error: the
\* throwing plugin is the last one invoked and is invoked once, no plugin
\* after it and no final serializer is invoked, no step follows, and nothing
\* is returned.
ThrowAbortsSerialization ==
    /\ error # NoError => pc = "error"
    /\ pc = "error" =>
          /\ error # NoError
          /\ calls # <<>>
          /\ ~calls[Len(calls)].returned
          /\ calls[Len(calls)].processor = index
          /\ \A j, k \in DOMAIN calls : j < k => calls[j].processor < calls[k].processor
          /\ finalCalls = <<>>
          /\ result = NoResult
          /\ log = <<>>
          /\ ~ENABLED Next

ThrowAbortsSerializationWitness ==
    /\ pc = "error"
    /\ index < Len(processors)
    /\ IsDefined(processors[index + 1])

\* The request is a static export: platform=web and serializer.output=static.
OnStaticPath ==
    /\ props.options.sourceUrl.present
    /\ props.options.sourceUrl.platform = "web"
    /\ props.options.sourceUrl.output = "static"

\* The value of the underlying serializer for the tuple handed to it.
UnderlyingValue == defaultSerializer(originalSerializer, props, graphKeys, output)

AssetsOfType(type) == {i \in DOMAIN result.assets : result.assets[i].type = type}

\* A static export of non-empty bundle code has returned.
StaticExportDone ==
    /\ pc = "done"
    /\ OnStaticPath
    /\ UnderlyingValue.code # EmptyString

\* The returned JSON array has exactly one "js" asset, whose source is the
\* bundle code.
OneJsAsset ==
    /\ result.json
    /\ Cardinality(AssetsOfType("js")) = 1
    /\ \A i \in AssetsOfType("js") : result.assets[i].source = UnderlyingValue.code

\* C12, as stated: on the static-export path with non-empty bundle code the
\* returned JSON array has exactly one "js" asset whose source is the bundle
\* code, and exactly one "map" asset if serializer.map=true and none
\* otherwise, whatever the other request options.
MapAssetIffMapParameter ==
    StaticExportDone =>
        /\ OneJsAsset
        /\ Cardinality(AssetsOfType("map")) =
              IF props.options.sourceUrl.map = "true" THEN 1 ELSE 0

\* C12, amended: on the static-export path with non-empty bundle code the
\* returned JSON array has exactly one "js" asset whose source is the bundle
\* code, and exactly one "map" asset if serializer.map=true and
\* options.sourceMapUrl is set, and none otherwise.
StaticExportAssets ==
    StaticExportDone =>
        /\ OneJsAsset
        /\ Cardinality(AssetsOfType("map")) =
              IF /\ props.options.sourceUrl.map = "true"
                 /\ props.options.sourceMapUrl # "null"
              THEN 1 ELSE 0

StaticExportAssetsWitness ==
    /\ StaticExportDone
    /\ props.options.sourceUrl.jscSafe
    /\ Cardinality(AssetsOfType("map")) = 1
    /\ Cardinality(AssetsOfType("css")) = 1

\* C13: when the request is not a static export (no sourceUrl, platform not
\* web, or serializer.output not static) the final serializer returns the
\* value of the underlying serializer itself: no asset array, no style
\* assets, no source map and no id assignment.
NonStaticPassesThrough ==
    (pc = "done" /\ ~OnStaticPath) =>
        /\ result = Returned(UnderlyingValue)
        /\ log = <<>>
        /\ moduleIds = input.ids

NonStaticPassesThroughWitness ==
    /\ pc = "done"
    /\ props.options.sourceUrl.present
    /\ props.options.sourceUrl.platform = "ios"
    /\ props.options.sourceUrl.output = "static"
    /\ props.options.sourceUrl.map = "true"
    /\ props.options.sourceMapUrl # "null"
    /\ input.styles = 1
    /\ result = Returned(UnderlyingValue)

\* C14: an error for a specifier without a dependency entry, raised by
\* collectImportExports or by removeUnusedImports, names that specifier and
\* the path of the module whose tree holds it, and the final serializer is
\* not run.
UnresolvedSpecifierError ==
    error.type = "Error" =>
        /\ pc = "error"
        /\ finalCalls = <<>>
        /\ \E m \in Modules :
              /\ error.module = ModulePath(m)
              /\ error.specifier \notin DOMAIN dependencies[m]
              /\ \E o \in DOMAIN output[m] :
                    error.specifier \in Range(TraversedSources(output[m][o].ast))

\* The dependency entries of all modules together.
EdgeCount(deps) ==
    LET names == UNION {DOMAIN deps[k] : k \in Modules}
    IN Cardinality({p \in Modules \X names : p[2] \in DOMAIN deps[p[1]]})

\* A removeUnusedImports step that detached an edge and did not throw.
DetachingStep ==
    /\ AtPruneImports
    /\ EdgeCount(dependencies') < EdgeCount(dependencies)
    /\ pc' # "error"

\* A treeShakeAll call returns.
PassReturns == pc = "treeShakeAll" /\ Len(stack') < Len(stack)

\* C15: a removeUnusedImports step that detaches an edge starts a new
\* treeShakeAll at once, inside the running one, and a treeShakeAll returns
\* only after it ran collectImportExports on every module that was in the
\* graph when it started and treeShakeExports and removeUnusedImports on
\* every module (every output unit) that is in the graph when it returns.
CompletePassAfterDetachment ==
    [][/\ DetachingStep =>
            /\ Len(stack') = Len(stack) + 1
            /\ stack'[Len(stack')] = Frame("collect", 0, 0, 1)
       /\ PassReturns =>
            /\ graphKeys \subseteq Top.scanned
            /\ graphKeys \subseteq Top.shaken
            /\ \A m \in graphKeys : \A o \in DOMAIN output[m] : <<m, o>> \in Top.pruned]_vars

\* A nested treeShakeAll, started after a detachment, is about to return
\* from a graph it has made smaller.
CompletePassAfterDetachmentWitness ==
    /\ pc = "treeShakeAll"
    /\ Len(stack) >= 2
    /\ BetweenModules(Top)
    /\ NextKey(graphKeys, Top.pos) = 0
    /\ EdgeCount(dependencies) < EdgeCount(input.graph.dependencies)
    /\ Top.scanned # graphKeys
    /\ Top.shaken = graphKeys

\* The import declarations and import specifiers of all trees together.
ImportSize(out) ==
    LET decls == UNION {UNION {{<<m, o, i>> : i \in DOMAIN out[m][o].ast.imports} :
                                o \in DOMAIN out[m]} : m \in Modules}
        specs == UNION {{<<d, j>> : j \in DOMAIN out[d[1]][d[2]].ast.imports[d[3]].specifiers} :
                            d \in decls}
    IN Cardinality(decls) + Cardinality(specs)

\* A removeUnusedImports step after which treeShakeAll calls itself.
RerunStarts == pc = "treeShakeAll" /\ Len(stack') > Len(stack)

\* C16, as stated: a recursive re-run is started only after a step that
\* detached at least one edge, never after a step that left the number of
\* dependency edges unchanged.
RerunOnlyAfterDetachment ==
    [][RerunStarts => EdgeCount(dependencies') < EdgeCount(dependencies)]_vars

\* C16, amended: a recursive re-run is started only after a step that
\* removed at least one import specifier or import declaration from a tree
\* (detaching an edge or not), never after a step that changed nothing.
RerunOnlyAfterRemoval ==
    [][RerunStarts =>
          /\ ImportSize(output') < ImportSize(output)
          /\ EdgeCount(dependencies') <= EdgeCount(dependencies)]_vars

\* A re-run has started although no edge was ever detached.
RerunOnlyAfterRemovalWitness ==
    /\ pc = "treeShakeAll"
    /\ Len(stack) = 2
    /\ Top = Frame("collect", 0, 0, 1)
    /\ EdgeCount(dependencies) = EdgeCount(input.graph.dependencies)
    /\ ImportSize(output) < ImportSize(input.graph.output)

\* The recorded import facts of every output unit of A are the ones
\* collectImportExports derives from the unit's tree as it is now.
FreshFacts(A) ==
    \A u \in DOMAIN output[A] :
        /\ output[A][u].modules.present
        /\ output[A][u].modules.imports =
              ImportFacts(dependencies[A], output[A][u].ast)

\* C17: whenever treeShakeExports is about to decide the liveness of the
\* exports of M, the import facts recorded on every importer of M that is
\* in the graph are the facts of that importer's current tree.
UsageCacheFresh ==
    AtShakeExports =>
        \A A \in inverseDependencies[NextKey(graphKeys, Top.pos)] \cap graphKeys :
            FreshFacts(A)

\* collectImportExports is about to run on every module of the graph.
AtCollect == pc = "treeShakeAll" /\ Top.phase = "collect"

\* C18: collectImportExports adds and deletes no graph entry, changes no
\* dependencies map and no inverseDependencies set, and writes nothing of an
\* output unit but its ast and modules fields.
CollectIsReadOnly ==
    [][AtCollect =>
          /\ graphKeys' = graphKeys
          /\ dependencies' = dependencies
          /\ inverseDependencies' = inverseDependencies
          /\ \A m \in Modules :
                /\ DOMAIN output'[m] = DOMAIN output[m]
                /\ \A o \in DOMAIN output[m] :
                      [output'[m][o] EXCEPT !.ast = output[m][o].ast,
                                            !.modules = output[m][o].modules]
                          = output[m][o]]_vars

\* A nested treeShakeAll has collected again in a graph that pruning has
\* made smaller.
CollectIsReadOnlyWitness ==
    /\ pc = "treeShakeAll"
    /\ Len(stack) >= 2
    /\ Top.phase = "modules"
    /\ Top.pos = 0
    /\ graphKeys # Modules
    /\ \E m \in graphKeys :
          /\ FreshFacts(m)
          /\ output[m][1].modules.imports
                # ImportFacts(input.graph.dependencies[m], InputAst(m, 1))

\* C19: all through the plugin the graph's keys, every module's dependency
\* entries and every module's inverse dependencies are among those the
\* plugin was called with.
OnlyRemoves ==
    /\ graphKeys \subseteq input.graph.keys
    /\ \A m \in Modules :
          /\ DOMAIN dependencies[m] \subseteq DOMAIN input.graph.dependencies[m]
          /\ \A s \in DOMAIN dependencies[m] :
                dependencies[m][s] = input.graph.dependencies[m][s]
          /\ inverseDependencies[m] \subseteq input.graph.inverseDependencies[m]

\* Pruning is under way and has removed a module, an edge and an inverse
\* edge.
OnlyRemovesWitness ==
    /\ pc = "treeShakeAll"
    /\ graphKeys # input.graph.keys
    /\ \E m \in graphKeys :
          DOMAIN dependencies[m] # DOMAIN input.graph.dependencies[m]
    /\ \E m \in graphKeys :
          inverseDependencies[m] # input.graph.inverseDependencies[m]

\* The positions of the log where sourceMapString was called.
SourceMapCalls == {k \in DOMAIN log : log[k].op = "sourceMapString"}

\* C20: the sequence handed to sourceMapString is the prepended modules in
\* their order, then every module of the graph once, in ascending order of
\* createModuleId; createModuleId was called on every module of the graph,
\* in the graph's iteration order, before the first comparison, and no id
\* assigned before has changed.
SortedModulesForSourceMap ==
    \A k \in SourceMapCalls :
        LET modules == log[k].modules
            pre == props.preModules
            order == GraphOrder(graphKeys, 0)
            n == Len(order)
            sorted == SubSeq(modules, Len(pre) + 1, Len(modules))
        IN /\ Len(modules) = Len(pre) + n
           /\ \A i \in DOMAIN pre : modules[i] = PreModule(pre[i])
           /\ {sorted[i] : i \in DOMAIN sorted} = {GraphModule(m) : m \in graphKeys}
           /\ \A i, j \in DOMAIN sorted :
                 i < j => moduleIds[sorted[i].id] < moduleIds[sorted[j].id]
           /\ \A i \in 1..n : log[i] = IdCall(order[i])
           /\ \A i \in DOMAIN log : log[i].op = "compare" => i > n
           /\ \A p \in DOMAIN input.ids : moduleIds[p] = input.ids[p]

\* A source map was made of two prepended modules and a graph whose
\* modules the sort has put in another order than the graph's.
SortedModulesForSourceMapWitness ==
    \E k \in SourceMapCalls :
        /\ Len(props.preModules) = 2
        /\ \E i \in DOMAIN log : log[i].op = "compare"
        /\ SubSeq(log[k].modules, 3, Len(log[k].modules))
              # [i \in DOMAIN GraphOrder(graphKeys, 0) |->
                    GraphModule(GraphOrder(graphKeys, 0)[i])]
        /\ graphKeys # Modules

\* C21: the entry-point module is in the graph in every state, also when a
\* module that imports it has that import pruned.
EntryPointNeverDeleted == props.entryPoint \in graphKeys

\* C22: after treeShakeAll completes, every inverse dependency of a module
\* in the graph is itself in the graph.
InverseDependenciesInGraph ==
    Completed =>
        \A M \in graphKeys : inverseDependencies[M] \subseteq graphKeys

\* Every import and require specifier of every tree of g has an entry in its
\* module's dependencies map, whose target is in g.
ResolverConsistent(g) ==
    \A m \in g.keys : \A o \in DOMAIN g.output[m] :
        \A src \in Range(TraversedSources(g.output[m][o].ast)) :
            /\ src \in DOMAIN g.dependencies[m]
            /\ g.dependencies[m][src] \in g.keys

\* A module of g has two import declarations, or an import declaration and
\* a require, of one source, or has several output units.
SharesSource(g) ==
    \E m \in g.keys :
        \/ Len(g.output[m]) > 1
        \/ \E o \in DOMAIN g.output[m] :
              LET srcs == TraversedSources(g.output[m][o].ast)
              IN \E i, j \in DOMAIN srcs : i < j /\ srcs[i] = srcs[j]

\* C23: on a resolver-consistent input graph in which a module has two
\* import declarations, or an import and a require, of one source, or has
\* several output units, no error is raised.
NoErrorOnConsistentGraph ==
    (ResolverConsistent(input.graph) /\ SharesSource(input.graph)) =>
        error = NoError

====
